---- MODULE Spec2Model ----
(***************************************************************************)
(* Model of transition_to_latex and its helpers (ism_lines_helpers.py).    *)
(* Strings are sequences of characters, so that matching, prefix removal,   *)
(* splitting and the numeric conversions are computed.  A printable ASCII  *)
(* character is the one-character string; tab, line feed, form feed and    *)
(* carriage return are "\t", "\n", "\f", "\r"; every other character is    *)
(* written by its code point, "U+0663" for ARABIC-INDIC DIGIT THREE: the   *)
(* parser of this notation rejects most non-ASCII characters in a string.  *)
(***************************************************************************)
EXTENDS Integers, Sequences, FiniteSets, TLC

VARIABLES transition, high, low, names, high_lvls, low_lvls, pc, exc, line, out, warned

vars == <<transition, high, low, names, high_lvls, low_lvls, pc, exc, line, out, warned>>

(* ---------------------------- bounds ----------------------------------- *)

\* Total number of label tokens in the two halves of a generated descriptor.
MaxTokens == 4

(* ------------------------ string primitives ---------------------------- *)

\* The ASCII digits, in the order of their values
AsciiDigits == <<"0", "1", "2", "3", "4", "5", "6", "7", "8", "9">>

\* Zero to nine of every other script of Unicode category Nd (Unicode 14)
OtherDigitRows ==
    <<
       <<"U+0660", "U+0661", "U+0662", "U+0663", "U+0664", "U+0665", "U+0666", "U+0667", "U+0668", "U+0669">>,
       <<"U+06F0", "U+06F1", "U+06F2", "U+06F3", "U+06F4", "U+06F5", "U+06F6", "U+06F7", "U+06F8", "U+06F9">>,
       <<"U+07C0", "U+07C1", "U+07C2", "U+07C3", "U+07C4", "U+07C5", "U+07C6", "U+07C7", "U+07C8", "U+07C9">>,
       <<"U+0966", "U+0967", "U+0968", "U+0969", "U+096A", "U+096B", "U+096C", "U+096D", "U+096E", "U+096F">>,
       <<"U+09E6", "U+09E7", "U+09E8", "U+09E9", "U+09EA", "U+09EB", "U+09EC", "U+09ED", "U+09EE", "U+09EF">>,
       <<"U+0A66", "U+0A67", "U+0A68", "U+0A69", "U+0A6A", "U+0A6B", "U+0A6C", "U+0A6D", "U+0A6E", "U+0A6F">>,
       <<"U+0AE6", "U+0AE7", "U+0AE8", "U+0AE9", "U+0AEA", "U+0AEB", "U+0AEC", "U+0AED", "U+0AEE", "U+0AEF">>,
       <<"U+0B66", "U+0B67", "U+0B68", "U+0B69", "U+0B6A", "U+0B6B", "U+0B6C", "U+0B6D", "U+0B6E", "U+0B6F">>,
       <<"U+0BE6", "U+0BE7", "U+0BE8", "U+0BE9", "U+0BEA", "U+0BEB", "U+0BEC", "U+0BED", "U+0BEE", "U+0BEF">>,
       <<"U+0C66", "U+0C67", "U+0C68", "U+0C69", "U+0C6A", "U+0C6B", "U+0C6C", "U+0C6D", "U+0C6E", "U+0C6F">>,
       <<"U+0CE6", "U+0CE7", "U+0CE8", "U+0CE9", "U+0CEA", "U+0CEB", "U+0CEC", "U+0CED", "U+0CEE", "U+0CEF">>,
       <<"U+0D66", "U+0D67", "U+0D68", "U+0D69", "U+0D6A", "U+0D6B", "U+0D6C", "U+0D6D", "U+0D6E", "U+0D6F">>,
       <<"U+0DE6", "U+0DE7", "U+0DE8", "U+0DE9", "U+0DEA", "U+0DEB", "U+0DEC", "U+0DED", "U+0DEE", "U+0DEF">>,
       <<"U+0E50", "U+0E51", "U+0E52", "U+0E53", "U+0E54", "U+0E55", "U+0E56", "U+0E57", "U+0E58", "U+0E59">>,
       <<"U+0ED0", "U+0ED1", "U+0ED2", "U+0ED3", "U+0ED4", "U+0ED5", "U+0ED6", "U+0ED7", "U+0ED8", "U+0ED9">>,
       <<"U+0F20", "U+0F21", "U+0F22", "U+0F23", "U+0F24", "U+0F25", "U+0F26", "U+0F27", "U+0F28", "U+0F29">>,
       <<"U+1040", "U+1041", "U+1042", "U+1043", "U+1044", "U+1045", "U+1046", "U+1047", "U+1048", "U+1049">>,
       <<"U+1090", "U+1091", "U+1092", "U+1093", "U+1094", "U+1095", "U+1096", "U+1097", "U+1098", "U+1099">>,
       <<"U+17E0", "U+17E1", "U+17E2", "U+17E3", "U+17E4", "U+17E5", "U+17E6", "U+17E7", "U+17E8", "U+17E9">>,
       <<"U+1810", "U+1811", "U+1812", "U+1813", "U+1814", "U+1815", "U+1816", "U+1817", "U+1818", "U+1819">>,
       <<"U+1946", "U+1947", "U+1948", "U+1949", "U+194A", "U+194B", "U+194C", "U+194D", "U+194E", "U+194F">>,
       <<"U+19D0", "U+19D1", "U+19D2", "U+19D3", "U+19D4", "U+19D5", "U+19D6", "U+19D7", "U+19D8", "U+19D9">>,
       <<"U+1A80", "U+1A81", "U+1A82", "U+1A83", "U+1A84", "U+1A85", "U+1A86", "U+1A87", "U+1A88", "U+1A89">>,
       <<"U+1A90", "U+1A91", "U+1A92", "U+1A93", "U+1A94", "U+1A95", "U+1A96", "U+1A97", "U+1A98", "U+1A99">>,
       <<"U+1B50", "U+1B51", "U+1B52", "U+1B53", "U+1B54", "U+1B55", "U+1B56", "U+1B57", "U+1B58", "U+1B59">>,
       <<"U+1BB0", "U+1BB1", "U+1BB2", "U+1BB3", "U+1BB4", "U+1BB5", "U+1BB6", "U+1BB7", "U+1BB8", "U+1BB9">>,
       <<"U+1C40", "U+1C41", "U+1C42", "U+1C43", "U+1C44", "U+1C45", "U+1C46", "U+1C47", "U+1C48", "U+1C49">>,
       <<"U+1C50", "U+1C51", "U+1C52", "U+1C53", "U+1C54", "U+1C55", "U+1C56", "U+1C57", "U+1C58", "U+1C59">>,
       <<"U+A620", "U+A621", "U+A622", "U+A623", "U+A624", "U+A625", "U+A626", "U+A627", "U+A628", "U+A629">>,
       <<"U+A8D0", "U+A8D1", "U+A8D2", "U+A8D3", "U+A8D4", "U+A8D5", "U+A8D6", "U+A8D7", "U+A8D8", "U+A8D9">>,
       <<"U+A900", "U+A901", "U+A902", "U+A903", "U+A904", "U+A905", "U+A906", "U+A907", "U+A908", "U+A909">>,
       <<"U+A9D0", "U+A9D1", "U+A9D2", "U+A9D3", "U+A9D4", "U+A9D5", "U+A9D6", "U+A9D7", "U+A9D8", "U+A9D9">>,
       <<"U+A9F0", "U+A9F1", "U+A9F2", "U+A9F3", "U+A9F4", "U+A9F5", "U+A9F6", "U+A9F7", "U+A9F8", "U+A9F9">>,
       <<"U+AA50", "U+AA51", "U+AA52", "U+AA53", "U+AA54", "U+AA55", "U+AA56", "U+AA57", "U+AA58", "U+AA59">>,
       <<"U+ABF0", "U+ABF1", "U+ABF2", "U+ABF3", "U+ABF4", "U+ABF5", "U+ABF6", "U+ABF7", "U+ABF8", "U+ABF9">>,
       <<"U+FF10", "U+FF11", "U+FF12", "U+FF13", "U+FF14", "U+FF15", "U+FF16", "U+FF17", "U+FF18", "U+FF19">>,
       <<"U+104A0", "U+104A1", "U+104A2", "U+104A3", "U+104A4", "U+104A5", "U+104A6", "U+104A7", "U+104A8", "U+104A9">>,
       <<"U+10D30", "U+10D31", "U+10D32", "U+10D33", "U+10D34", "U+10D35", "U+10D36", "U+10D37", "U+10D38", "U+10D39">>,
       <<"U+11066", "U+11067", "U+11068", "U+11069", "U+1106A", "U+1106B", "U+1106C", "U+1106D", "U+1106E", "U+1106F">>,
       <<"U+110F0", "U+110F1", "U+110F2", "U+110F3", "U+110F4", "U+110F5", "U+110F6", "U+110F7", "U+110F8", "U+110F9">>,
       <<"U+11136", "U+11137", "U+11138", "U+11139", "U+1113A", "U+1113B", "U+1113C", "U+1113D", "U+1113E", "U+1113F">>,
       <<"U+111D0", "U+111D1", "U+111D2", "U+111D3", "U+111D4", "U+111D5", "U+111D6", "U+111D7", "U+111D8", "U+111D9">>,
       <<"U+112F0", "U+112F1", "U+112F2", "U+112F3", "U+112F4", "U+112F5", "U+112F6", "U+112F7", "U+112F8", "U+112F9">>,
       <<"U+11450", "U+11451", "U+11452", "U+11453", "U+11454", "U+11455", "U+11456", "U+11457", "U+11458", "U+11459">>,
       <<"U+114D0", "U+114D1", "U+114D2", "U+114D3", "U+114D4", "U+114D5", "U+114D6", "U+114D7", "U+114D8", "U+114D9">>,
       <<"U+11650", "U+11651", "U+11652", "U+11653", "U+11654", "U+11655", "U+11656", "U+11657", "U+11658", "U+11659">>,
       <<"U+116C0", "U+116C1", "U+116C2", "U+116C3", "U+116C4", "U+116C5", "U+116C6", "U+116C7", "U+116C8", "U+116C9">>,
       <<"U+11730", "U+11731", "U+11732", "U+11733", "U+11734", "U+11735", "U+11736", "U+11737", "U+11738", "U+11739">>,
       <<"U+118E0", "U+118E1", "U+118E2", "U+118E3", "U+118E4", "U+118E5", "U+118E6", "U+118E7", "U+118E8", "U+118E9">>,
       <<"U+11950", "U+11951", "U+11952", "U+11953", "U+11954", "U+11955", "U+11956", "U+11957", "U+11958", "U+11959">>,
       <<"U+11C50", "U+11C51", "U+11C52", "U+11C53", "U+11C54", "U+11C55", "U+11C56", "U+11C57", "U+11C58", "U+11C59">>,
       <<"U+11D50", "U+11D51", "U+11D52", "U+11D53", "U+11D54", "U+11D55", "U+11D56", "U+11D57", "U+11D58", "U+11D59">>,
       <<"U+11DA0", "U+11DA1", "U+11DA2", "U+11DA3", "U+11DA4", "U+11DA5", "U+11DA6", "U+11DA7", "U+11DA8", "U+11DA9">>,
       <<"U+16A60", "U+16A61", "U+16A62", "U+16A63", "U+16A64", "U+16A65", "U+16A66", "U+16A67", "U+16A68", "U+16A69">>,
       <<"U+16AC0", "U+16AC1", "U+16AC2", "U+16AC3", "U+16AC4", "U+16AC5", "U+16AC6", "U+16AC7", "U+16AC8", "U+16AC9">>,
       <<"U+16B50", "U+16B51", "U+16B52", "U+16B53", "U+16B54", "U+16B55", "U+16B56", "U+16B57", "U+16B58", "U+16B59">>,
       <<"U+1D7CE", "U+1D7CF", "U+1D7D0", "U+1D7D1", "U+1D7D2", "U+1D7D3", "U+1D7D4", "U+1D7D5", "U+1D7D6", "U+1D7D7">>,
       <<"U+1D7D8", "U+1D7D9", "U+1D7DA", "U+1D7DB", "U+1D7DC", "U+1D7DD", "U+1D7DE", "U+1D7DF", "U+1D7E0", "U+1D7E1">>,
       <<"U+1D7E2", "U+1D7E3", "U+1D7E4", "U+1D7E5", "U+1D7E6", "U+1D7E7", "U+1D7E8", "U+1D7E9", "U+1D7EA", "U+1D7EB">>,
       <<"U+1D7EC", "U+1D7ED", "U+1D7EE", "U+1D7EF", "U+1D7F0", "U+1D7F1", "U+1D7F2", "U+1D7F3", "U+1D7F4", "U+1D7F5">>,
       <<"U+1D7F6", "U+1D7F7", "U+1D7F8", "U+1D7F9", "U+1D7FA", "U+1D7FB", "U+1D7FC", "U+1D7FD", "U+1D7FE", "U+1D7FF">>,
       <<"U+1E140", "U+1E141", "U+1E142", "U+1E143", "U+1E144", "U+1E145", "U+1E146", "U+1E147", "U+1E148", "U+1E149">>,
       <<"U+1E2F0", "U+1E2F1", "U+1E2F2", "U+1E2F3", "U+1E2F4", "U+1E2F5", "U+1E2F6", "U+1E2F7", "U+1E2F8", "U+1E2F9">>,
       <<"U+1E950", "U+1E951", "U+1E952", "U+1E953", "U+1E954", "U+1E955", "U+1E956", "U+1E957", "U+1E958", "U+1E959">>,
       <<"U+1FBF0", "U+1FBF1", "U+1FBF2", "U+1FBF3", "U+1FBF4", "U+1FBF5", "U+1FBF6", "U+1FBF7", "U+1FBF8", "U+1FBF9">>
    >>

\* The characters \d matches in a str pattern compiled without re.ASCII, which
\* are also the digits int() converts: every Unicode decimal digit
Digits ==
    {AsciiDigits[i] : i \in 1..10}
        \cup {OtherDigitRows[r][i] : r \in 1..Len(OtherDigitRows), i \in 1..10}

\* The value of a decimal digit
digitValue(c) ==
    CHOOSE d \in 0..9 :
        AsciiDigits[d + 1] = c \/ \E r \in 1..Len(OtherDigitRows) : OtherDigitRows[r][d + 1] = c

\* The characters str.strip() removes: those for which str.isspace() holds
Whitespace ==
    {
      "\t", "\n", "U+000B", "\f", "\r", "U+001C", "U+001D", "U+001E",
      "U+001F", " ", "U+0085", "U+00A0", "U+1680", "U+2000", "U+2001", "U+2002",
      "U+2003", "U+2004", "U+2005", "U+2006", "U+2007", "U+2008", "U+2009", "U+200A",
      "U+2028", "U+2029", "U+202F", "U+205F", "U+3000"
    }

\* The characters int() skips around a literal: Whitespace without the four
\* ASCII separators U+001C to U+001F
IntWhitespace ==
    {
      "\t", "\n", "U+000B", "\f", "\r", " ", "U+0085", "U+00A0",
      "U+1680", "U+2000", "U+2001", "U+2002", "U+2003", "U+2004", "U+2005", "U+2006",
      "U+2007", "U+2008", "U+2009", "U+200A", "U+2028", "U+2029", "U+202F", "U+205F",
      "U+3000"
    }

NoMatch == -1

Take(s, n) == SubSeq(s, 1, n)

Drop(s, n) == SubSeq(s, n + 1, Len(s))

\* str.startswith
startswith(s, p) == Len(p) <= Len(s) /\ Take(s, Len(p)) = p

\* `c in s` for a one-character c
contains(s, c) == \E i \in 1..Len(s) : s[i] = c

\* str.replace(old, new) for one-character old and new: every occurrence
replace(s, old, new) == [i \in 1..Len(s) |-> IF s[i] = old THEN new ELSE s[i]]

\* count as it would be if occurrences were allowed to overlap
RECURSIVE count_overlapping(_, _)
count_overlapping(s, sep) ==
    IF Len(s) < Len(sep) THEN 0
    ELSE IF startswith(s, sep) THEN 1 + count_overlapping(Tail(s), sep)
    ELSE count_overlapping(Tail(s), sep)

\* str.count(sep): non-overlapping occurrences, scanning left to right
RECURSIVE count(_, _)
count(s, sep) ==
    IF Len(s) < Len(sep) THEN 0
    ELSE IF startswith(s, sep) THEN 1 + count(Drop(s, Len(sep)), sep)
    ELSE count(Tail(s), sep)

\* str.split(sep): the list of parts between non-overlapping occurrences
RECURSIVE splitFrom(_, _, _)
splitFrom(s, sep, cur) ==
    IF Len(s) < Len(sep) THEN <<cur \o s>>
    ELSE IF startswith(s, sep) THEN <<cur>> \o splitFrom(Drop(s, Len(sep)), sep, <<>>)
    ELSE splitFrom(Tail(s), sep, Append(cur, Head(s)))

split(s, sep) == splitFrom(s, sep, <<>>)

\* Leading and trailing characters of the set chars removed
RECURSIVE lstrip(_, _)
lstrip(s, chars) == IF s # <<>> /\ Head(s) \in chars THEN lstrip(Tail(s), chars) ELSE s

RECURSIVE rstrip(_, _)
rstrip(s, chars) ==
    IF s # <<>> /\ s[Len(s)] \in chars THEN rstrip(Take(s, Len(s) - 1), chars) ELSE s

\* str.strip(): leading and trailing whitespace removed
strip(s) == rstrip(lstrip(s, Whitespace), Whitespace)

\* s[:-1] in place of s[:-2]
DropLast1(s) == IF Len(s) <= 1 THEN <<>> ELSE Take(s, Len(s) - 1)

\* s[:-2]
DropLast2(s) == IF Len(s) <= 2 THEN <<>> ELSE Take(s, Len(s) - 2)

\* The value of digit(_?digit)*, the underscores skipped
RECURSIVE digitsValue(_)
digitsValue(s) ==
    IF s = <<>> THEN 0
    ELSE IF s[Len(s)] = "_" THEN digitsValue(Take(s, Len(s) - 1))
    ELSE 10 * digitsValue(Take(s, Len(s) - 1)) + digitValue(s[Len(s)])

\* sys.int_info.default_max_str_digits of Python 3.11: int() of a literal with
\* more digits, and str() of an integer with more digits, raise ValueError
MaxStrDigits == 4300

\* The number of digits of a literal, its underscores and leading zeros apart
digitCount(s) == Cardinality({i \in 1..Len(s) : s[i] \in Digits})

\* digit(_?digit)*: decimal digits, single underscores between two of them
int_digits(s) ==
    /\ s # <<>>
    /\ s[1] \in Digits
    /\ s[Len(s)] \in Digits
    /\ \A i \in 2..(Len(s) - 1) :
          s[i] \in Digits \/ (s[i] = "_" /\ s[i - 1] \in Digits /\ s[i + 1] \in Digits)

\* The literal after its sign; ok is FALSE when int() raises ValueError
int_unsigned(negative, s) ==
    IF ~int_digits(s) \/ digitCount(s) > MaxStrDigits THEN [ok |-> FALSE, val |-> 0]
    ELSE [ok |-> TRUE, val |-> IF negative THEN 0 - digitsValue(s) ELSE digitsValue(s)]

\* The literal after the surrounding whitespace: an optional sign, then digits
int_signed(s) ==
    IF s # <<>> /\ s[1] = "-" THEN int_unsigned(TRUE, Tail(s))
    ELSE IF s # <<>> /\ s[1] = "+" THEN int_unsigned(FALSE, Tail(s))
    ELSE int_unsigned(FALSE, s)

\* int(s) in base 10: [ok |-> TRUE, val |-> the integer], or ok = FALSE for
\* ValueError
int(s) == int_signed(rstrip(lstrip(s, IntWhitespace), IntWhitespace))

\* str(n) and f"{n}", for an n they convert
RECURSIVE str(_)
str(n) ==
    IF n < 0 THEN <<"-">> \o str(0 - n)
    ELSE IF n < 10 THEN <<AsciiDigits[n + 1]>>
    ELSE str(n \div 10) \o <<AsciiDigits[(n % 10) + 1]>>

\* str(n) and f"{n}" raise ValueError: n has more than MaxStrDigits digits
str_raises(n) == Len(str(IF n < 0 THEN 0 - n ELSE n)) > MaxStrDigits

\* n % d == 0 and n // d of Python, for d # 0: the quotient is rounded down
divides(d, n) == n % (IF d > 0 THEN d ELSE 0 - d) = 0

floordiv(n, d) == IF d > 0 THEN n \div d ELSE (0 - n) \div (0 - d)

(* ---------------------- the patterns of re.match ----------------------- *)

\* \d* from offset k: the offset after the longest run of digits
RECURSIVE skipDigits(_, _)
skipDigits(s, k) ==
    IF k < Len(s) /\ s[k + 1] \in Digits THEN skipDigits(s, k + 1) ELSE k

\* literal p at offset k
litAt(s, k, p) == k + Len(p) <= Len(s) /\ SubSeq(s, k + 1, k + Len(p)) = p

\* \A(j|v|n|f|ka|kc) : end of the match, or NoMatch
re_name(s) ==
    IF Len(s) >= 1 /\ s[1] \in {"j", "v", "n", "f"} THEN 1
    ELSE IF Len(s) >= 2 /\ s[1] = "k" /\ s[2] \in {"a", "c"} THEN 2
    ELSE NoMatch

\* \A(j|v|n|f|ka|kc)\d*_2
re_frac(s) ==
    IF re_name(s) = NoMatch THEN NoMatch
    ELSE LET k == skipDigits(s, re_name(s))
         IN  IF litAt(s, k, <<"_", "2">>) THEN k + 2 ELSE NoMatch

\* \A(j|v|n|f|ka|kc)\d*d\d*
re_dec(s) ==
    IF re_name(s) = NoMatch THEN NoMatch
    ELSE LET k == skipDigits(s, re_name(s))
         IN  IF litAt(s, k, <<"d">>) THEN skipDigits(s, k + 1) ELSE NoMatch

\* \A(j|v|n|f|ka|kc)\d*
re_int(s) ==
    IF re_name(s) = NoMatch THEN NoMatch ELSE skipDigits(s, re_name(s))

\* \Ael\d*(po|so|do)
re_el_long(s) ==
    IF ~startswith(s, <<"e", "l">>) THEN NoMatch
    ELSE LET k == skipDigits(s, 2)
         IN  IF litAt(s, k, <<"p", "o">>) \/ litAt(s, k, <<"s", "o">>) \/ litAt(s, k, <<"d", "o">>)
             THEN k + 2 ELSE NoMatch

\* \Ael\d*(p|s|d)
re_el_short(s) ==
    IF ~startswith(s, <<"e", "l">>) THEN NoMatch
    ELSE LET k == skipDigits(s, 2)
         IN  IF litAt(s, k, <<"p">>) \/ litAt(s, k, <<"s">>) \/ litAt(s, k, <<"d">>)
             THEN k + 1 ELSE NoMatch

\* the marker pattern without its trailing \d*
re_marker_no_digits(s) ==
    IF (startswith(s, <<"p", "p">>) \/ startswith(s, <<"p", "m">>))
       /\ litAt(s, 2, <<"_", "f", "i", "f">>)
    THEN 6 ELSE NoMatch

\* \A(pp|pm)_fif\d*
re_marker(s) ==
    IF (startswith(s, <<"p", "p">>) \/ startswith(s, <<"p", "m">>))
       /\ litAt(s, 2, <<"_", "f", "i", "f">>)
    THEN skipDigits(s, 6) ELSE NoMatch

\* \A\d*[/.]\d*\Z
re_level(s) ==
    LET k == skipDigits(s, 0)
    IN  (litAt(s, k, <<"/">>) \/ litAt(s, k, <<".">>)) /\ skipDigits(s, k + 1) = Len(s)

(* ----------------------------- helpers --------------------------------- *)

\* _removeprefixes(string, *prefixes)
RECURSIVE _removeprefixes(_, _)
_removeprefixes(string, prefixes) ==
    IF prefixes = <<>> THEN string
    ELSE _removeprefixes(
             IF startswith(string, Head(prefixes)) THEN Drop(string, Len(Head(prefixes))) ELSE string,
             Tail(prefixes))

\* _energy_to_latex lookup with the raw name as default
_energy_to_latex(name) ==
    CASE name = <<"j">> -> <<"J">>
      [] name = <<"v">> -> <<"\\", "n", "u">>
      [] name = <<"f">> -> <<"f">>
      [] name = <<"n">> -> <<"n">>
      [] name = <<"k", "a">> -> <<"k", "_", "a">>
      [] name = <<"k", "c">> -> <<"k", "_", "c">>
      [] OTHER -> name

(* ------------------------ classifier / renderer ------------------------ *)

\* Lines 431-437 (438-444 for the low level) with ia = int(a): numerator and
\* denominator of `a.b`; ok is FALSE when int(a) raises ValueError, `at` is the
\* offset of the line that calls int()
decimal_nd(ia, b) ==
    IF b = <<"0">> THEN [ok |-> ia.ok, n |-> 2 * ia.val, d |-> 1, warned |-> FALSE, at |-> 0]
    ELSE IF b = <<"5">> THEN [ok |-> ia.ok, n |-> 2 * ia.val + 1, d |-> 2, warned |-> FALSE, at |-> 2]
    ELSE [ok |-> ia.ok, n |-> ia.val, d |-> 1, warned |-> TRUE, at |-> 5]

\* Line 425 (426 for the low level) with ia = int(a), ib = int(b)
explicit_nd(ia, ib) ==
    [ok |-> ia.ok /\ ib.ok, n |-> ia.val, d |-> ib.val, warned |-> FALSE, at |-> 0]

\* One level `a/b` or `a.b` split in its parts a, b
level_nd(frac, a, b) ==
    IF frac THEN explicit_nd(int(a), int(b)) ELSE decimal_nd(int(a), b)

\* Lines 446-449 (450-453): plain integer when the denominator divides the
\* numerator, else \frac{n}{d}
level_latex(n, d) ==
    IF divides(d, n) THEN str(floordiv(n, d))
    ELSE <<"\\", "f", "r", "a", "c", "{">> \o str(n) \o <<"}", "{">> \o str(d) \o <<"}">>

\* Lines 447 and 449 (451 and 453): a conversion of the level raises ValueError
level_latex_raises(n, d) ==
    IF divides(d, n) THEN str_raises(floordiv(n, d)) ELSE str_raises(n) \/ str_raises(d)

\* What the numeric branch of _transition leaves in high_lvl_latex and
\* low_lvl_latex, or the exception raised on the way
render_failed(e, ln, w) == [exc |-> e, line |-> ln, warned |-> w, high |-> <<>>, low |-> <<>>]

render_nd(frac, fh, fl) ==
    IF ~fh.ok THEN render_failed("ValueError", (IF frac THEN 425 ELSE 432) + fh.at, fh.warned)
    ELSE IF ~fl.ok THEN render_failed("ValueError", (IF frac THEN 426 ELSE 439) + fl.at,
                                      fh.warned \/ fl.warned)
    ELSE IF fh.d = 0 THEN render_failed("ZeroDivisionError", 446, FALSE)
    ELSE IF level_latex_raises(fh.n, fh.d)
    THEN render_failed("ValueError", IF divides(fh.d, fh.n) THEN 447 ELSE 449,
                       fh.warned \/ fl.warned)
    ELSE IF fl.d = 0 THEN render_failed("ZeroDivisionError", 450, FALSE)
    ELSE IF level_latex_raises(fl.n, fl.d)
    THEN render_failed("ValueError", IF divides(fl.d, fl.n) THEN 451 ELSE 453,
                       fh.warned \/ fl.warned)
    ELSE [exc |-> "none", line |-> 0, warned |-> fh.warned \/ fl.warned,
          high |-> level_latex(fh.n, fh.d), low |-> level_latex(fl.n, fl.d)]

\* Lines 422-423 (428-429): both levels split at the separator of high_lvl
render_parts(frac, ph, pl) ==
    IF Len(pl) # 2 THEN render_failed("ValueError", IF frac THEN 423 ELSE 429, FALSE)
    ELSE render_nd(frac, level_nd(frac, ph[1], ph[2]), level_nd(frac, pl[1], pl[2]))

\* Lines 420-456 of _transition
rendered_levels(high_lvl, low_lvl) ==
    IF ~re_level(high_lvl)
    THEN [exc |-> "none", line |-> 0, warned |-> FALSE, high |-> high_lvl, low |-> low_lvl]
    ELSE IF contains(high_lvl, "/")
    THEN render_parts(TRUE, split(high_lvl, <<"/">>), split(low_lvl, <<"/">>))
    ELSE render_parts(FALSE, split(high_lvl, <<".">>), split(low_lvl, <<".">>))

\* "${}={}$".format(name_latex, lvl)
level_format(name_latex, lvl) == <<"$">> \o name_latex \o <<"=">> \o lvl \o <<"$">>

\* Lines 458-463: descr is <<constant>> or <<high, low>>
classify(name_latex, r) ==
    IF r.exc # "none"
    THEN [exc |-> r.exc, line |-> r.line, warned |-> r.warned, istrans |-> FALSE, descr |-> <<>>]
    ELSE IF r.high = r.low
    THEN [exc |-> "none", line |-> 0, warned |-> r.warned, istrans |-> FALSE,
          descr |-> <<level_format(name_latex, r.low)>>]
    ELSE [exc |-> "none", line |-> 0, warned |-> r.warned, istrans |-> TRUE,
          descr |-> <<level_format(name_latex, r.high), level_format(name_latex, r.low)>>]

\* _transition(name, high_lvl, low_lvl)
_transition(name, high_lvl, low_lvl) ==
    classify(_energy_to_latex(name), rendered_levels(high_lvl, low_lvl))

\* _eltransition(high, low)
_eltransition(h, l) ==
    IF h = l
    THEN [exc |-> "none", line |-> 0, warned |-> FALSE, istrans |-> FALSE,
          descr |-> << <<"$">> \o h \o <<"$">> >>]
    ELSE [exc |-> "none", line |-> 0, warned |-> FALSE, istrans |-> TRUE,
          descr |-> << <<"$">> \o h \o <<"$">>, <<"$">> \o l \o <<"$">> >>]

(* ----------------------------- assembler ------------------------------- *)

\* Lines 519-522: the classifier chosen by the label name
describe(name, h, l) ==
    IF name = <<"e", "l">> THEN _eltransition(h, l) ELSE _transition(name, h, l)

\* Lines 528-529
sort_format(descr_0, descr_1a, descr_1b) ==
    strip(descr_0) \o <<" ", "(">> \o DropLast2(descr_1a)
        \o <<" ", "$", "\\", "t", "o", "$", " ">> \o DropLast2(descr_1b) \o <<")">>

RECURSIVE sort_loop(_, _, _, _, _, _, _, _)
RECURSIVE sort_accumulate(_, _, _, _, _, _, _, _, _)

\* Lines 523-527 for the label at index i, classified as t
sort_accumulate(ns, hs, ls, i, descr_0, descr_1a, descr_1b, w, t) ==
    IF t.exc # "none"
    THEN [exc |-> t.exc, line |-> t.line, warned |-> w \/ t.warned, out |-> <<>>]
    ELSE IF t.istrans
    THEN sort_loop(ns, hs, ls, i + 1, descr_0,
                   descr_1a \o t.descr[1] \o <<",", " ">>,
                   descr_1b \o t.descr[2] \o <<",", " ">>, w \/ t.warned)
    ELSE sort_loop(ns, hs, ls, i + 1, descr_0 \o t.descr[1] \o <<" ">>,
                   descr_1a, descr_1b, w \/ t.warned)

\* The for loop of _sort_transitions from index i on, then the final format
sort_loop(ns, hs, ls, i, descr_0, descr_1a, descr_1b, w) ==
    IF i > Len(ns)
    THEN [exc |-> "none", line |-> 0, warned |-> w,
          out |-> sort_format(descr_0, descr_1a, descr_1b)]
    ELSE sort_accumulate(ns, hs, ls, i, descr_0, descr_1a, descr_1b, w,
                         describe(ns[i], hs[i], ls[i]))

\* _sort_transitions without the early return on an empty list of names
_sort_transitions_no_early_return(ns, hs, ls) ==
    IF Len(hs) # Len(ns) \/ Len(ls) # Len(ns)
    THEN [exc |-> "ValueError", line |-> 510, warned |-> FALSE, out |-> <<>>]
    ELSE sort_loop(ns, hs, ls, 1, <<>>, <<>>, <<>>, FALSE)

\* _sort_transitions(names, high_lvls, low_lvls)
_sort_transitions(ns, hs, ls) ==
    IF Len(hs) # Len(ns) \/ Len(ls) # Len(ns)
    THEN [exc |-> "ValueError", line |-> 510, warned |-> FALSE, out |-> <<>>]
    ELSE IF Len(ns) = 0
    THEN [exc |-> "none", line |-> 0, warned |-> FALSE, out |-> <<>>]
    ELSE sort_loop(ns, hs, ls, 1, <<>>, <<>>, <<>>, FALSE)

(* ------------------------- descriptor inputs --------------------------- *)

\* Label tokens the generated descriptors are made of
Tokens ==
    { <<"j", "1">>, <<"j", "0">>, <<"v", "3", "d", "0">>,
      <<"j", "3", "_", "2">>, <<"j", "2", "d", "5">>,
      <<"e", "l", "3", "p", "o">>, <<"e", "l", "1", "s">>,
      <<"p", "p", "_", "f", "i", "f", "1">> }

RECURSIVE join(_, _)
join(parts, sep) ==
    IF parts = <<>> THEN <<>>
    ELSE IF Len(parts) = 1 THEN parts[1]
    ELSE parts[1] \o sep \o join(Tail(parts), sep)

\* one-token halves around no separator, or one, three or four underscores
OtherSeparators ==
    { h \o sep \o l : h \in Tokens \cup {<<>>}, l \in Tokens \cup {<<>>},
                      sep \in { <<>>, <<"_">>, <<"_", "_", "_">>, <<"_", "_", "_", "_">> } }

\* Longer descriptors and label forms the token set leaves out
Examples ==
    { \* v0_j1__v0_j0
      <<"v","0","_","j","1","_","_","v","0","_","j","0">>,
      \* j1_pp_fif_v0__j0_pp_fif_v0
      <<"j","1","_","p","p","_","f","i","f","_","v","0","_","_",
        "j","0","_","p","m","_","f","i","f","_","v","0">>,
      \* v1_pp_fif2j3_2_el2p__v1_pm_fif10j1_2_el2p
      <<"v","1","_","p","p","_","f","i","f","2","j","3","_","2","_","e","l","2","p","_","_",
        "v","1","_","p","m","_","f","i","f","1","0","j","1","_","2","_","e","l","2","p">>,
      \* el3po__el3so
      <<"e","l","3","p","o","_","_","e","l","3","s","o">>,
      \* ka1_kc0__ka0_kc0
      <<"k","a","1","_","k","c","0","_","_","k","a","0","_","k","c","0">>,
      \* ka1__kc1
      <<"k","a","1","_","_","k","c","1">>,
      \* j3d0__j2d0
      <<"j","3","d","0","_","_","j","2","d","0">>,
      \* j10d5_f4_2__j9d5_f2_2
      <<"j","1","0","d","5","_","f","4","_","2","_","_","j","9","d","5","_","f","2","_","2">>,
      \* j1d3__j2d0
      <<"j","1","d","3","_","_","j","2","d","0">>,
      \* n_2__n_2
      <<"n","_","2","_","_","n","_","2">>,
      \* jd5__jd5
      <<"j","d","5","_","_","j","d","5">>,
      \* j__j
      <<"j","_","_","j">>,
      \* x__y
      <<"x","_","_","y">>,
      \* Levels written with ARABIC-INDIC (U+0660..) or FULLWIDTH (U+FF10..)
      \* digits: 3d5__2d5, 3__3, 3_2__1_2, 3d0__2d0, and 3d0__2d0 with only
      \* the 0 after `d` non-ASCII
      <<"j","U+0663","d","5","_","_","j","U+0662","d","5">>,
      <<"j","U+0663","_","_","j","U+0663">>,
      <<"j","U+FF13","_","2","_","_","j","U+0661","_","2">>,
      <<"j","U+0663","d","0","_","_","j","U+0662","d","0">>,
      <<"j","3","d","U+0660","_","_","j","2","d","U+0660">>,
      \* pp_fif3j1__pm_fif2j0 and el3s__el3p, the 3 and the 2 ARABIC-INDIC
      <<"p","p","_","f","i","f","U+0663","j","1","_","_","p","m","_","f","i","f","U+0662","j","0">>,
      <<"e","l","U+0663","s","_","_","e","l","U+0663","p">> }

(* ------------------------------ driver --------------------------------- *)

\* The call starts with a descriptor whose halves hold i and k - i tokens
\* joined by `_` around one `__`, or with one of OtherSeparators or Examples.
Init ==
    /\ \/ \E k \in 0..MaxTokens : \E i \in 0..k :
             \E h \in [1..i -> Tokens], l \in [1..(k - i) -> Tokens] :
                transition = join(h, <<"_">>) \o <<"_", "_">> \o join(l, <<"_">>)
       \/ transition \in OtherSeparators
       \/ transition \in Examples
    /\ high = <<>>
    /\ low = <<>>
    /\ names = <<>>
    /\ high_lvls = <<>>
    /\ low_lvls = <<>>
    /\ pc = "entry"
    /\ exc = "none"
    /\ line = 0
    /\ out = <<>>
    /\ warned = FALSE

\* The locals of transition_to_latex and where control is
Cur ==
    [high |-> high, low |-> low, names |-> names, high_lvls |-> high_lvls,
     low_lvls |-> low_lvls, pc |-> pc, exc |-> exc, line |-> line]

Become(st) ==
    /\ high' = st.high
    /\ low' = st.low
    /\ names' = st.names
    /\ high_lvls' = st.high_lvls
    /\ low_lvls' = st.low_lvls
    /\ pc' = st.pc
    /\ exc' = st.exc
    /\ line' = st.line

raise(st, e, ln) == [st EXCEPT !.pc = "raised", !.exc = e, !.line = ln]

\* lines 253-258: separator count, split, empty accumulator
Split ==
    /\ pc = "entry"
    /\ IF count(transition, <<"_", "_">>) # 1
       THEN Become(raise(Cur, "ValueError", 254))
       ELSE Become([Cur EXCEPT !.high = split(transition, <<"_", "_">>)[1],
                               !.low = split(transition, <<"_", "_">>)[2],
                               !.names = <<>>, !.high_lvls = <<>>, !.low_lvls = <<>>,
                               !.pc = "loop"])
    /\ UNCHANGED <<transition, out, warned>>

\* res_high is not None and res_low is not None
both(res_high, res_low) == res_high # NoMatch /\ res_low # NoMatch

\* The chain of `if ... continue` of the loop body: the first tier whose
\* pattern matches both halves, 0 when control falls to line 339
matched_tier(h, l) ==
    IF both(re_frac(h), re_frac(l)) THEN 1
    ELSE IF both(re_dec(h), re_dec(l)) THEN 2
    ELSE IF both(re_int(h), re_int(l)) THEN 3
    ELSE IF both(re_el_long(h), re_el_long(l)) THEN 4
    ELSE IF both(re_el_short(h), re_el_short(l)) THEN 5
    ELSE IF both(re_marker(h), re_marker(l)) THEN 6
    ELSE 0

\* the comparison with n_high on both sides
name_mismatch_same_side(n_high, n_low) == n_high # n_high

\* n_high != n_low
name_mismatch(n_high, n_low) == n_high # n_low

\* Body shared by the three numeric tiers: the tokens end at end_high and
\* end_low, the marker `old` of the value is replaced by `new` (tier 3 replaces
\* nothing), ln is the raising line
numeric_tier(st, end_high, end_low, old, new, ln) ==
    LET e_high == Take(st.high, end_high)
        e_low  == Take(st.low, end_low)
        n_high == Take(e_high, re_name(e_high))
        n_low  == Take(e_low, re_name(e_low))
    IN  IF name_mismatch(n_high, n_low)
        THEN raise(st, "ValueError", ln)
        ELSE [st EXCEPT
                !.names = Append(@, n_high),
                !.high_lvls = Append(@, replace(_removeprefixes(e_high, <<n_high>>), old, new)),
                !.low_lvls = Append(@, replace(_removeprefixes(e_low, <<n_low>>), old, new)),
                !.high = _removeprefixes(@, <<e_high, <<"_">>>>),
                !.low = _removeprefixes(@, <<e_low, <<"_">>>>)]

\* lines 264-274
tier_fraction(st) ==
    numeric_tier(st, re_frac(st.high), re_frac(st.low), "_", "/", 268)

\* lines 279-289
tier_decimal(st) ==
    numeric_tier(st, re_dec(st.high), re_dec(st.low), "d", ".", 283)

\* lines 294-304
tier_integer(st) ==
    numeric_tier(st, re_int(st.high), re_int(st.low), "", "", 298)

\* lines 309-315: names.append("el"), then e_high._removeprefixes is looked
\* up on a str, which has no such attribute
tier_el_long(st) ==
    raise([st EXCEPT !.names = Append(@, <<"e", "l">>)], "AttributeError", 311)

\* lines 320-326
tier_el_short(st) ==
    LET e_high == Take(st.high, re_el_short(st.high))
        e_low  == Take(st.low, re_el_short(st.low))
    IN  [st EXCEPT
           !.names = Append(@, <<"e", "l">>),
           !.high_lvls = Append(@, _removeprefixes(e_high, << <<"e", "l">> >>)),
           !.low_lvls = Append(@, _removeprefixes(e_low, << <<"e", "l">> >>)),
           !.high = _removeprefixes(@, <<e_high, <<"_">>>>),
           !.low = _removeprefixes(@, <<e_low, <<"_">>>>)]

\* lines 331-337
tier_marker(st) ==
    LET e_high == Take(st.high, re_marker(st.high))
        e_low  == Take(st.low, re_marker(st.low))
    IN  [st EXCEPT
           !.high = _removeprefixes(@, <<e_high, <<"_">>>>),
           !.low = _removeprefixes(@, <<e_low, <<"_">>>>)]

\* One iteration of the while body that matched a tier
loop_body(st) ==
    CASE matched_tier(st.high, st.low) = 1 -> tier_fraction(st)
      [] matched_tier(st.high, st.low) = 2 -> tier_decimal(st)
      [] matched_tier(st.high, st.low) = 3 -> tier_integer(st)
      [] matched_tier(st.high, st.low) = 4 -> tier_el_long(st)
      [] matched_tier(st.high, st.low) = 5 -> tier_el_short(st)
      [] OTHER -> tier_marker(st)

\* What the call ends with once the assembler returned or raised r
call_result(st, r) ==
    [pc |-> IF r.exc = "none" THEN "done" ELSE "raised", exc |-> r.exc, line |-> r.line,
     out |-> r.out, names |-> st.names, high_lvls |-> st.high_lvls, low_lvls |-> st.low_lvls]

\* The rest of the call from the locals st at the while test: how it ends, or
\* "spin" when an iteration changes nothing (lines 259-342)
RECURSIVE run(_)
run(st) ==
    IF st.pc # "loop"
    THEN [pc |-> st.pc, exc |-> st.exc, line |-> st.line, out |-> <<>>,
          names |-> st.names, high_lvls |-> st.high_lvls, low_lvls |-> st.low_lvls]
    ELSE IF st.high = <<>> \/ st.low = <<>>
    THEN call_result(st, _sort_transitions(st.names, st.high_lvls, st.low_lvls))
    ELSE IF matched_tier(st.high, st.low) = 0
    THEN [pc |-> "spin", exc |-> "none", line |-> 0, out |-> <<>>,
          names |-> st.names, high_lvls |-> st.high_lvls, low_lvls |-> st.low_lvls]
    ELSE run(loop_body(st))

\* while high != "" and low != ""
InLoop == pc = "loop" /\ high # <<>> /\ low # <<>>

TierFraction ==
    /\ InLoop
    /\ matched_tier(high, low) = 1
    /\ Become(tier_fraction(Cur))
    /\ UNCHANGED <<transition, out, warned>>

TierDecimal ==
    /\ InLoop
    /\ matched_tier(high, low) = 2
    /\ Become(tier_decimal(Cur))
    /\ UNCHANGED <<transition, out, warned>>

TierInteger ==
    /\ InLoop
    /\ matched_tier(high, low) = 3
    /\ Become(tier_integer(Cur))
    /\ UNCHANGED <<transition, out, warned>>

TierElLong ==
    /\ InLoop
    /\ matched_tier(high, low) = 4
    /\ Become(tier_el_long(Cur))
    /\ UNCHANGED <<transition, out, warned>>

TierElShort ==
    /\ InLoop
    /\ matched_tier(high, low) = 5
    /\ Become(tier_el_short(Cur))
    /\ UNCHANGED <<transition, out, warned>>

TierMarker ==
    /\ InLoop
    /\ matched_tier(high, low) = 6
    /\ Become(tier_marker(Cur))
    /\ UNCHANGED <<transition, out, warned>>

\* no `continue` was taken: control reaches line 339
NoTier ==
    /\ InLoop
    /\ matched_tier(high, low) = 0
    /\ pc' = "check"
    /\ UNCHANGED <<transition, high, low, names, high_lvls, low_lvls, exc, line, out, warned>>

\* lines 339-340, then back to the while test
AsymmetryCheck ==
    /\ pc = "check"
    /\ IF (high = <<>> /\ low # <<>>) \/ (high # <<>> /\ low = <<>>)
       THEN Become(raise(Cur, "RuntimeError", 340))
       ELSE Become([Cur EXCEPT !.pc = "loop"])
    /\ UNCHANGED <<transition, out, warned>>

\* The assembler returned or raised r
Returned(r) ==
    /\ IF r.exc # "none"
       THEN Become(raise(Cur, r.exc, r.line)) /\ out' = out
       ELSE Become([Cur EXCEPT !.pc = "done"]) /\ out' = r.out
    /\ warned' = r.warned
    /\ UNCHANGED transition

\* line 342: the while test fails, the assembler is called
Return ==
    /\ pc = "loop"
    /\ ~(high # <<>> /\ low # <<>>)
    /\ Returned(_sort_transitions(names, high_lvls, low_lvls))

Next ==
    \/ Split
    \/ TierFraction
    \/ TierDecimal
    \/ TierInteger
    \/ TierElLong
    \/ TierElShort
    \/ TierMarker
    \/ NoTier
    \/ AsymmetryCheck
    \/ Return

Spec == Init /\ [][Next]_vars

(* ------------------------------ claims --------------------------------- *)

El == <<"e", "l">>

OneHalfEmpty == (high = <<>> /\ low # <<>>) \/ (high # <<>> /\ low = <<>>)

\* The letter portion at the front of a half
LabelOf(s) == Take(s, re_name(s))

\* C1: whenever the while test finds exactly one of the remaining halves empty,
\* the call ends by raising the asymmetry error (RuntimeError, line 340) and
\* returns no string.
C1_AsymmetryRaises ==
    [][(pc = "loop" /\ OneHalfEmpty) => (pc' = "raised" /\ exc' = "RuntimeError")]_vars

\* C2: when control reaches the end of the loop body with both halves
\* non-empty (no tier matched both), the call raises; it does not go back to
\* the while test with high and low unchanged.
C2_UnrecognizedRaises ==
    [][(pc = "check" /\ high # <<>> /\ low # <<>>) => pc' = "raised"]_vars

OneSided(h, l) ==
    \/ (re_frac(h) = NoMatch) # (re_frac(l) = NoMatch)
    \/ (re_dec(h) = NoMatch) # (re_dec(l) = NoMatch)
    \/ (re_int(h) = NoMatch) # (re_int(l) = NoMatch)
    \/ (re_el_long(h) = NoMatch) # (re_el_long(l) = NoMatch)
    \/ (re_el_short(h) = NoMatch) # (re_el_short(l) = NoMatch)
    \/ (re_marker(h) = NoMatch) # (re_marker(l) = NoMatch)

\* C3: an iteration in which some tier's pattern matches exactly one of the
\* two halves ends the call with an error; no lower tier consumes a token.
C3_OneSidedMatchFails ==
    [][(InLoop /\ OneSided(high, low)) => pc' = "raised"]_vars

\* A level `a.0` or `a.5` with a non-empty integer part a
IsDecimalHalf(lvl) ==
    /\ Len(split(lvl, <<".">>)) = 2
    /\ int(split(lvl, <<".">>)[1]).ok
    /\ int(split(lvl, <<".">>)[1]).val >= 0
    /\ split(lvl, <<".">>)[2] \in {<<"0">>, <<"5">>}

\* a for `a.0`, \frac{2a+1}{2} for `a.5`
DecimalHalfLatex(lvl) ==
    IF split(lvl, <<".">>)[2] = <<"0">>
    THEN str(int(split(lvl, <<".">>)[1]).val)
    ELSE <<"\\", "f", "r", "a", "c", "{">> \o str(2 * int(split(lvl, <<".">>)[1]).val + 1)
         \o <<"}", "{", "2", "}">>

\* C4: for every label of a returned call whose upper and lower values are
\* both of the form a.0 or a.5, _transition renders a.0 as the integer a and
\* a.5 as \frac{2a+1}{2}, on both sides.
C4_DecimalHalfRendering ==
    pc = "done" =>
        \A i \in 1..Len(names) :
            (names[i] # El /\ IsDecimalHalf(high_lvls[i]) /\ IsDecimalHalf(low_lvls[i])) =>
                /\ rendered_levels(high_lvls[i], low_lvls[i]).high = DecimalHalfLatex(high_lvls[i])
                /\ rendered_levels(high_lvls[i], low_lvls[i]).low = DecimalHalfLatex(low_lvls[i])

SameNumericTier(h, l) ==
    \/ re_frac(h) # NoMatch /\ re_frac(l) # NoMatch
    \/ re_dec(h) # NoMatch /\ re_dec(l) # NoMatch
    \/ re_int(h) # NoMatch /\ re_int(l) # NoMatch

\* C5: an iteration in which both halves match the same numeric tier but start
\* with different label names raises ValueError and leaves names, high_lvls,
\* low_lvls and the result untouched.
C5_NameMismatchRaises ==
    [][(InLoop /\ SameNumericTier(high, low) /\ LabelOf(high) # LabelOf(low)) =>
          /\ pc' = "raised"
          /\ exc' = "ValueError"
          /\ names' = names
          /\ high_lvls' = high_lvls
          /\ low_lvls' = low_lvls
          /\ out' = out]_vars

\* A mismatch raised at the second label, after one label was accumulated
C5_Witness ==
    /\ pc = "raised"
    /\ line \in {268, 283, 298}
    /\ Len(names) = 1
    /\ SameNumericTier(high, low)
    /\ LabelOf(high) # LabelOf(low)

\* Occurrences of `__`: each maximal run of n underscores holds n \div 2 of them
RECURSIVE SeparatorsFrom(_, _, _)
SeparatorsFrom(s, i, n) ==
    IF i > Len(s) THEN n \div 2
    ELSE IF s[i] = "_" THEN SeparatorsFrom(s, i + 1, n + 1)
    ELSE (n \div 2) + SeparatorsFrom(s, i + 1, 0)

Separators(s) == SeparatorsFrom(s, 1, 0)

\* C6: the first step of the call raises the format error (ValueError, line
\* 254) with nothing matched exactly when the descriptor does not hold exactly
\* one `__`; otherwise it splits the descriptor into high and low around it.
C6_SeparatorCount ==
    [][pc = "entry" =>
          IF Separators(transition) = 1
          THEN /\ pc' = "loop"
               /\ exc' = "none"
               /\ high' \o <<"_", "_">> \o low' = transition
               /\ names' = <<>>
          ELSE /\ pc' = "raised"
               /\ exc' = "ValueError"
               /\ line' = 254
               /\ names' = <<>>
               /\ high' = <<>>
               /\ low' = <<>>]_vars

\* The format error raised on a descriptor with no or several separators
C6_Witness ==
    /\ pc = "raised"
    /\ line = 254
    /\ Separators(transition) # 1

\* The rendered upper and lower value of label i
RenderedHigh(i) ==
    IF names[i] = El THEN high_lvls[i] ELSE rendered_levels(high_lvls[i], low_lvls[i]).high

RenderedLow(i) ==
    IF names[i] = El THEN low_lvls[i] ELSE rendered_levels(high_lvls[i], low_lvls[i]).low

IsConstant(i) == RenderedHigh(i) = RenderedLow(i)

IsTransition(i) == ~IsConstant(i)

\* The display of label i with value v
Display(i, v) ==
    IF names[i] = El THEN <<"$">> \o v \o <<"$">>
    ELSE <<"$">> \o _energy_to_latex(names[i]) \o <<"=">> \o v \o <<"$">>

DisplayHigh(i) == Display(i, RenderedHigh(i))

DisplayLow(i) == Display(i, RenderedLow(i))

Indices == [i \in 1..Len(names) |-> i]

ConstantIndices == SelectSeq(Indices, IsConstant)

TransitionIndices == SelectSeq(Indices, IsTransition)

ConstantsSegment ==
    join([k \in 1..Len(ConstantIndices) |-> DisplayLow(ConstantIndices[k])], <<" ">>)

HighSegment ==
    join([k \in 1..Len(TransitionIndices) |-> DisplayHigh(TransitionIndices[k])], <<",", " ">>)

LowSegment ==
    join([k \in 1..Len(TransitionIndices) |-> DisplayLow(TransitionIndices[k])], <<",", " ">>)

Arrow == <<" ", "$", "\\", "t", "o", "$", " ">>

\* C7: the string returned for a non-empty accumulator is the constants in
\* descriptor order, then ` (`, the upper displays of the transitioning labels
\* in descriptor order, the arrow, their lower displays in the same order, `)`.
C7_OutputGrouping ==
    (pc = "done" /\ names # <<>>) =>
        out = ConstantsSegment \o <<" ", "(">> \o HighSegment \o Arrow \o LowSegment \o <<")">>

\* A returned call whose first label transitions and whose second is constant
C7_Witness ==
    /\ pc = "done"
    /\ Len(names) = 2
    /\ IsTransition(1)
    /\ IsConstant(2)

NoTransition == \A i \in 1..Len(names) : IsConstant(i)

EmptyParenthesis == <<"(", " ", "$", "\\", "t", "o", "$", " ", ")">>

EndsWith(s, suffix) ==
    Len(suffix) <= Len(s) /\ SubSeq(s, Len(s) - Len(suffix) + 1, Len(s)) = suffix

\* C8 as stated: every returned string of a call without transitioning label,
\* the empty accumulator included, ends with the parenthesis around the arrow.
C8_AlwaysParenthesis ==
    (pc = "done" /\ NoTransition) => EndsWith(out, EmptyParenthesis)

\* C8 amended: without transitioning label, a non-empty accumulator gives the
\* constants followed by the parenthesis around the bare arrow, and an empty
\* accumulator gives the empty string.
C8_ParenthesisUnlessEmpty ==
    (pc = "done" /\ NoTransition) =>
        IF names = <<>> THEN out = <<>>
        ELSE out = ConstantsSegment \o <<" ">> \o EmptyParenthesis

\* A returned call with labels, all of them constant
C8_Witness ==
    /\ pc = "done"
    /\ names # <<>>
    /\ NoTransition

IsMarker(s) ==
    (startswith(s, <<"p", "p", "_", "f", "i", "f">>) \/ startswith(s, <<"p", "m", "_", "f", "i", "f">>))

RECURSIVE DropDigits(_)
DropDigits(s) == IF s # <<>> /\ Head(s) \in Digits THEN DropDigits(Tail(s)) ELSE s

DropUnderscore(s) == IF s # <<>> /\ Head(s) = "_" THEN Tail(s) ELSE s

\* The half without its leading marker and the `_` that follows it
AfterMarker(s) == DropUnderscore(DropDigits(Drop(s, 6)))

WithoutMarkers(st) == [st EXCEPT !.high = AfterMarker(@), !.low = AfterMarker(@)]

\* C9: an iteration whose halves both start with the hyperfine marker leaves
\* names, high_lvls and low_lvls unchanged and advances both halves past the
\* marker, its digits and one following `_`; and from every such state the call
\* ends exactly as it would with the marker removed from both halves.
C9_MarkerIgnored ==
    /\ [][(InLoop /\ IsMarker(high) /\ IsMarker(low)) =>
             /\ pc' = "loop"
             /\ names' = names
             /\ high_lvls' = high_lvls
             /\ low_lvls' = low_lvls
             /\ high' = AfterMarker(high)
             /\ low' = AfterMarker(low)]_vars
    /\ []((InLoop /\ IsMarker(high) /\ IsMarker(low)) => run(Cur) = run(WithoutMarkers(Cur)))

\* A returned call that matched a label before the marker and one after it
C9_Witness ==
    /\ pc = "done"
    /\ Len(names) = 2
    /\ \E i \in 1..Len(transition) : IsMarker(Drop(transition, i))

ElLongValue(s) == Drop(Take(s, re_el_long(s)), 2)

ElLongRest(s) == DropUnderscore(Drop(s, re_el_long(s)))

\* C10: an iteration whose halves both match the long-suffix electronic tier
\* appends `el` with both tokens stripped of `el` and advances both halves past
\* the token and one following `_`, as the short-suffix tier does.
C10_ElLongLikeShort ==
    [][(InLoop /\ re_el_long(high) # NoMatch /\ re_el_long(low) # NoMatch) =>
          /\ pc' = "loop"
          /\ names' = Append(names, El)
          /\ high_lvls' = Append(high_lvls, ElLongValue(high))
          /\ low_lvls' = Append(low_lvls, ElLongValue(low))
          /\ high' = ElLongRest(high)
          /\ low' = ElLongRest(low)]_vars

====
